---- MODULE Spec2Model ----
(***************************************************************************)
(* Model of the ENS160 gas-sensor driver (src/ENS160.ts).                  *)
(*                                                                         *)
(* The driver is a class holding an I2C bus handle.  Every method is an    *)
(* async function: a straight-line sequence of awaited bus transactions    *)
(* (writeI2cBlock / readI2cBlock), awaited sleeps and local throws, all    *)
(* wrapped in try { ... } catch (err) { throw err; }.  Here a method is a  *)
(* sequence of steps, built by concatenation exactly as the source builds  *)
(* it by calling other methods; a caller (a task of the event loop) runs   *)
(* one method at a time, one step per action.  The device is a register    *)
(* file that echoes what is written to it.                                 *)
(*                                                                         *)
(* Numbers written 0x.. in the source are decimal here; temperatures and   *)
(* humidities are passed in hundredths (25 C is 2500).                     *)
(***************************************************************************)
EXTENDS Integers, Sequences, FiniteSets

\* ------------------------------------------------------------------------
\* Register map and protocol constants (src/ENS160.ts lines 10-38)
\* ------------------------------------------------------------------------
ENS160_PARTID == 352
ENS160_CMD_PARTID == 0
ENS160_CMD_OPMODE == 16
ENS160_CMD_COMMAND == 18
ENS160_CMD_TEMPIN == 19
ENS160_CMD_RHIN == 21
ENS160_CMD_STATUS == 32
ENS160_CMD_AQI == 33
ENS160_CMD_TVOC == 34
ENS160_CMD_ECO2 == 36
ENS160_CMD_T == 48
ENS160_CMD_RH == 50
ENS160_CMD_READGPR == 72

MODE_SLEEP == 0
MODE_IDLE == 1
MODE_STANDARD == 2
MODE_RESET == 240
VALID_MODES == {MODE_SLEEP, MODE_IDLE, MODE_STANDARD, MODE_RESET}

COMMAND_NOP == 0
COMMAND_CLRGPR == 204
COMMAND_GETAPPVER == 14

\* ------------------------------------------------------------------------
\* Node.js Buffer and Number primitives the driver uses
\* ------------------------------------------------------------------------
Byte == 0..255

\* Buffer.from([a, b, ...]): every element is stored modulo 256.
BufferFromArray(a) == [i \in 1..Len(a) |-> a[i] % 256]

\* buf.readInt8(): one byte as a two's-complement signed integer.
readInt8(buffer) == IF buffer[1] >= 128 THEN buffer[1] - 256 ELSE buffer[1]

\* The unsigned little-endian value of the first n bytes.
RECURSIVE UIntLE(_, _)
UIntLE(buffer, n) ==
    IF n = 0 THEN 0 ELSE buffer[1] + 256 * UIntLE(Tail(buffer), n - 1)

RECURSIVE Pow2(_)
Pow2(n) == IF n = 0 THEN 1 ELSE 2 * Pow2(n - 1)

\* buf.readIntLE(0, byteLength): little-endian, two's-complement signed.
readIntLE(buffer, byteLength) ==
    LET u == UIntLE(buffer, byteLength)
    IN  IF u >= Pow2(8 * byteLength - 1) THEN u - Pow2(8 * byteLength) ELSE u

\* buf.readUInt16BE(0): two bytes, big-endian, unsigned.
readUInt16BE(buffer) == 256 * buffer[1] + buffer[2]

\* buf.readIntBE(0, byteLength): big-endian, two's-complement signed.
RECURSIVE UIntBE(_, _)
UIntBE(buffer, n) ==
    IF n = 0 THEN 0 ELSE 256 * UIntBE(buffer, n - 1) + buffer[n]

readIntBE(buffer, byteLength) ==
    LET u == UIntBE(buffer, byteLength)
    IN  IF u >= Pow2(8 * byteLength - 1) THEN u - Pow2(8 * byteLength) ELSE u

\* Number((n / d).toFixed(1)) for d > 0, in tenths: the nearest tenth, a value
\* halfway between two tenths going to the upper one.
toFixed1(n, d) == (20 * n + d) \div (2 * d)

\* (n / d).toFixed(1) for an exact quotient of either sign, in tenths: the
\* sign is set apart and the magnitude rounded, a tie going to the larger
\* magnitude.
toFixed1Signed(n, d) == IF n < 0 THEN -toFixed1(-n, d) ELSE toFixed1(n, d)

\* parseInt(str) of a one-decimal string given in tenths: the digits before
\* the point, with the sign ("-0" is 0).
parseInt_tenths(n) == IF n < 0 THEN -((-n) \div 10) ELSE n \div 10

\* n.toString(16): the hexadecimal digits of an integer, most significant
\* first, as digit values 0..15; a negative number starts with "-" (here 16,
\* which is no hexadecimal digit).
RECURSIVE HexDigits(_)
HexDigits(n) ==
    IF n < 16 THEN <<n>> ELSE Append(HexDigits(n \div 16), n % 16)

toString16(n) == IF n < 0 THEN <<16>> \o HexDigits(-n) ELSE HexDigits(n)

\* Buffer.from(str, "hex"): one byte per pair of digits from the left; decoding
\* stops at the first pair that is not two hexadecimal digits, and a trailing
\* single digit is dropped.
RECURSIVE BufferFromHex(_)
BufferFromHex(str) ==
    IF Len(str) < 2 \/ str[1] > 15 \/ str[2] > 15
    THEN <<>>
    ELSE <<16 * str[1] + str[2]>> \o BufferFromHex(SubSeq(str, 3, Len(str)))

\* Math.ceil(n / d) for d > 0.
Ceil(n, d) == -((-n) \div d)

\* b.toString(2).padStart(8, "0"): the eight bits of a byte, bit 7 first.
Bin8(b) == [i \in 1..8 |-> (b \div Pow2(8 - i)) % 2]

\* ------------------------------------------------------------------------
\* Steps of a method
\* ------------------------------------------------------------------------
\* bus.writeI2cBlock(ENS160_I2CADDR, reg, len, data)
Write(reg, len, data) ==
    [k |-> "write", reg |-> reg, len |-> len, data |-> data]
\* bus.readI2cBlock(ENS160_I2CADDR, reg, len, Buffer.alloc(len)); "use" names
\* what the method does with the bytes read: "return" a value decoded from
\* them, or "check" them against the part id.
Read(reg, len, use) == [k |-> "read", reg |-> reg, len |-> len, use |-> use]
\* await sleep(ms)
Sleep(ms) == [k |-> "sleep", ms |-> ms]
\* throw e
Throw(e) == [k |-> "throw", err |-> e]
\* if (!value) throw e
IfNotThrow(value, e) == [k |-> "ifnot", value |-> value, err |-> e]
\* i2c.openPromisified(busNumber)
OpenBus(busNumber) == [k |-> "open", bus |-> busNumber]

\* ------------------------------------------------------------------------
\* The driver's methods, as the step sequences their bodies run
\* ------------------------------------------------------------------------
\* A setMode that returns as soon as the write has gone through.
setMode_NoSettle(mode) ==
    IF mode \notin VALID_MODES
    THEN <<Throw("InvalidMode")>>
    ELSE LET buf == BufferFromArray(<<mode>>)
         IN  <<Write(ENS160_CMD_OPMODE, Len(buf), buf)>>

\* A setMode that validates only after it has written.
setMode_WriteThenValidate(mode) ==
    LET buf == BufferFromArray(<<mode>>)
    IN  <<Write(ENS160_CMD_OPMODE, Len(buf), buf), Sleep(10)>>
        \o (IF mode \notin VALID_MODES THEN <<Throw("InvalidMode")>> ELSE <<>>)

setMode(mode) ==
    IF mode \notin VALID_MODES
    THEN <<Throw("InvalidMode")>>
    ELSE LET buf == BufferFromArray(<<mode>>)
         IN  <<Write(ENS160_CMD_OPMODE, Len(buf), buf), Sleep(10)>>

\* getMode returns curr.buffer.readInt8().
getMode_return(buffer) == readInt8(buffer)

getMode == <<Read(ENS160_CMD_OPMODE, 1, "return")>>

\* A reset that goes on to put the device in Idle.
reset_ThenIdle == setMode(MODE_RESET) \o setMode(MODE_IDLE)

reset == setMode(MODE_RESET)

\* A check that reads the part id big-endian.
check_ok_BigEndian(buffer) == 256 * buffer[1] + buffer[2] = ENS160_PARTID

\* The test check() makes on the two bytes read from PART_ID.
check_ok(buffer) == readIntLE(buffer, 2) = ENS160_PARTID

\* check() returns true whenever it returns.
check_return == TRUE

check == <<Read(ENS160_CMD_PARTID, 2, "check")>>

\* A clear_command that writes ClearGPR alone.
clear_command_NoNop ==
    << Write(ENS160_CMD_COMMAND, 1, BufferFromArray(<<COMMAND_CLRGPR>>)),
       Sleep(10) >>

clear_command ==
    << Write(ENS160_CMD_COMMAND, 1, BufferFromArray(<<COMMAND_NOP>>)),
       Write(ENS160_CMD_COMMAND, 1, BufferFromArray(<<COMMAND_CLRGPR>>)),
       Sleep(10) >>

read_gpr == <<Read(ENS160_CMD_READGPR, 8, "return")>>

\* A firmware_version that writes the saved mode back before it reads the
\* bank.
firmware_version_RestoreBeforeRead(curr) ==
    getMode
    \o setMode(MODE_IDLE)
    \o clear_command
    \o <<Sleep(10)>>
    \o <<Write(ENS160_CMD_COMMAND, 1, BufferFromArray(<<COMMAND_GETAPPVER>>))>>
    \o setMode(curr)
    \o read_gpr

\* A firmware_version that falls back to Standard when the saved value is no
\* valid mode.
firmware_version_FallBackToStandard(curr) ==
    getMode
    \o setMode(MODE_IDLE)
    \o clear_command
    \o <<Sleep(10)>>
    \o <<Write(ENS160_CMD_COMMAND, 1, BufferFromArray(<<COMMAND_GETAPPVER>>))>>
    \o read_gpr
    \o setMode(IF curr \in VALID_MODES THEN curr ELSE MODE_STANDARD)

\* A firmware_version that leaves the device in Standard mode, whatever
\* mode it read at its start.
firmware_version_RestoreStandard(curr) ==
    getMode
    \o setMode(MODE_IDLE)
    \o clear_command
    \o <<Sleep(10)>>
    \o <<Write(ENS160_CMD_COMMAND, 1, BufferFromArray(<<COMMAND_GETAPPVER>>))>>
    \o read_gpr
    \o setMode(MODE_STANDARD)

\* curr is the value the first step (getMode) returned.
firmware_version(curr) ==
    getMode
    \o setMode(MODE_IDLE)
    \o clear_command
    \o <<Sleep(10)>>
    \o <<Write(ENS160_CMD_COMMAND, 1, BufferFromArray(<<COMMAND_GETAPPVER>>))>>
    \o read_gpr
    \o setMode(curr)

\* temp_c100 is the temperature in hundredths of a degree Celsius:
\* k64 = Math.ceil((temp_c + 273.15) * 64.0).
temperature_k64(temp_c100) == Ceil((temp_c100 + 27315) * 64, 100)

temperature_compensation(temp_c100) ==
    LET buf == BufferFromHex(toString16(temperature_k64(temp_c100)))
    IN  <<Write(ENS160_CMD_TEMPIN, Len(buf), buf)>>

\* humidity100 is the relative humidity in hundredths of a percent:
\* k64 = Math.ceil(humidity * 512).
humidity_k64(humidity100) == Ceil(humidity100 * 512, 100)

humidity_compensation(humidity100) ==
    LET buf == BufferFromHex(toString16(humidity_k64(humidity100)))
    IN  <<Write(ENS160_CMD_RHIN, Len(buf), buf)>>

\* An init that enters Idle before it has checked the part id.
init_IdleBeforeCheck ==
    <<Sleep(20)>>
    \o reset
    \o setMode(MODE_IDLE)
    \o check
    \o <<IfNotThrow(check_return, "Could not detect!")>>
    \o clear_command
    \o setMode(MODE_STANDARD)
    \o temperature_compensation(2500)
    \o humidity_compensation(5000)

init ==
    <<Sleep(20)>>
    \o reset
    \o check
    \o <<IfNotThrow(check_return, "Could not detect!")>>
    \o setMode(MODE_IDLE)
    \o clear_command
    \o setMode(MODE_STANDARD)
    \o temperature_compensation(2500)
    \o humidity_compensation(5000)

open(busNumber) == <<OpenBus(busNumber)>> \o init

\* The compiled module's temperature_compensation: the same buffer, written
\* with the fixed length 2.
temperature_compensation_compiled(temp_c100) ==
    LET buf == BufferFromHex(toString16(temperature_k64(temp_c100)))
    IN  <<Write(ENS160_CMD_TEMPIN, 2, buf)>>

\* The compiled module's init: as init, with the defaults 25.5 and 51.
init_compiled ==
    <<Sleep(20)>>
    \o reset
    \o check
    \o <<IfNotThrow(check_return, "Could not detect!")>>
    \o setMode(MODE_IDLE)
    \o clear_command
    \o setMode(MODE_STANDARD)
    \o temperature_compensation_compiled(2550)
    \o humidity_compensation(5100)

open_compiled(busNumber) == <<OpenBus(busNumber)>> \o init_compiled

status == <<Read(ENS160_CMD_STATUS, 1, "return")>>

\* A decode that takes the validity field from bits 5-4 of the byte.
status_return_Bits54(buffer) ==
    LET bin == Bin8(buffer[1])
        sel == 2 * bin[3] + bin[4]
    IN  [ opmode |-> bin[1] = 1,
          error  |-> bin[2] = 1,
          status |-> CASE sel = 0 -> "normal"
                       [] sel = 1 -> "warmup"
                       [] sel = 2 -> "startup"
                       [] OTHER   -> "invalid" ]

\* The value status() returns for the byte read.
status_return(buffer) ==
    LET bin == Bin8(buffer[1])
        \* parseInt(bin.substring(4, 5)): the one character at index 4
        sel == bin[5]
    IN  [ opmode |-> bin[1] = 1,
          error  |-> bin[2] = 1,
          status |-> CASE sel = 0 -> "normal"
                       [] sel = 1 -> "warmup"
                       [] sel = 2 -> "startup"
                       [] sel = 3 -> "invalid"
                       [] OTHER   -> "invalid" ]

\* get_temperature_compensation: the register is read big-endian and
\* (be / 64.0) - 273.15 is rounded to one decimal; the result is in tenths of
\* a degree.  (The double 273.15 lies just below 273.15, so a value halfway
\* between two tenths comes out just above the half and rounds up.)
get_temperature_compensation == <<Read(ENS160_CMD_T, 2, "return")>>

get_temperature_compensation_return(buffer) ==
    toFixed1(100 * readUInt16BE(buffer) - 27315 * 64, 6400)

\* get_humidity_compensation: be / 512 rounded to one decimal, in tenths of
\* a percent.
get_humidity_compensation == <<Read(ENS160_CMD_RH, 2, "return")>>

get_humidity_compensation_return(buffer) ==
    toFixed1(readUInt16BE(buffer), 512)

\* The getters of the compiled module: the register is read big-endian and
\* signed, and the one-decimal string goes through parseInt, which keeps the
\* digits before the point.  The whole number returned is given in tenths
\* here, as the other getters' results are.
get_temperature_compensation_compiled == <<Read(ENS160_CMD_T, 2, "return")>>

get_temperature_compensation_compiled_return(buffer) ==
    10 * parseInt_tenths(toFixed1(100 * readIntBE(buffer, Len(buffer))
                                  - 27315 * 64, 6400))

get_humidity_compensation_compiled == <<Read(ENS160_CMD_RH, 2, "return")>>

get_humidity_compensation_compiled_return(buffer) ==
    10 * parseInt_tenths(toFixed1Signed(readIntBE(buffer, Len(buffer)), 512))

\* An AQI() that puts the device in Standard mode before it reads.
AQI_AfterModeWrite ==
    setMode(MODE_STANDARD) \o <<Read(ENS160_CMD_AQI, 1, "return")>>

\* AQI, ECO2 and TVOC return measurement.buffer.readIntLE(0, bytesRead).
AQI == <<Read(ENS160_CMD_AQI, 1, "return")>>
ECO2 == <<Read(ENS160_CMD_ECO2, 2, "return")>>
TVOC == <<Read(ENS160_CMD_TVOC, 2, "return")>>

measurement_return(buffer) == readIntLE(buffer, Len(buffer))

\* The characters of the decimal digits; a string is a sequence of characters.
DigitChars == <<"0", "1", "2", "3", "4", "5", "6", "7", "8", "9">>

\* n.toString(10) of a non-negative integer, and the string a template
\* literal makes of such a number.
RECURSIVE toString10(_)
toString10(n) ==
    IF n < 10 THEN <<DigitChars[n + 1]>>
    ELSE Append(toString10(n \div 10), DigitChars[(n % 10) + 1])

\* parseInt(str) of a string of decimal digits.
RECURSIVE parseInt(_)
parseInt(str) ==
    IF str = <<>> THEN 0
    ELSE 10 * parseInt(SubSeq(str, 1, Len(str) - 1))
         + (CHOOSE d \in 0..9 : DigitChars[d + 1] = str[Len(str)])

\* A version string built from the three bytes before those of the bank
\* that hold the version.
firmware_version_return_Offsets345(ret) ==
    toString10(parseInt(toString10(ret[4]))) \o <<".">>
    \o toString10(parseInt(toString10(ret[5]))) \o <<".">>
    \o toString10(parseInt(toString10(ret[6])))

\* The version string firmware_version() builds from the bank read:
\* `${parseInt(ret[4].toString(10))}.${parseInt(ret[5].toString(10))}.
\* ${parseInt(ret[6].toString(10))}` (ret[4] is the fifth byte).
firmware_version_return(ret) ==
    toString10(parseInt(toString10(ret[5]))) \o <<".">>
    \o toString10(parseInt(toString10(ret[6]))) \o <<".">>
    \o toString10(parseInt(toString10(ret[7])))

\* The steps of operation o called with argument a; c is the value of the
\* local variable curr of firmware_version.
Program(o, a, c) ==
    CASE o = "open"                     -> open(a)
      [] o = "reset"                    -> reset
      [] o = "setMode"                  -> setMode(a)
      [] o = "getMode"                  -> getMode
      [] o = "check"                    -> check
      [] o = "clear_command"            -> clear_command
      [] o = "firmware_version"         -> firmware_version(c)
      [] o = "temperature_compensation" -> temperature_compensation(a)
      [] o = "humidity_compensation"    -> humidity_compensation(a)
      [] o = "status"                   -> status
      [] o = "get_temperature_compensation" -> get_temperature_compensation
      [] o = "get_humidity_compensation"    -> get_humidity_compensation
      [] o = "open_compiled"            -> open_compiled(a)
      [] o = "temperature_compensation_compiled" ->
             temperature_compensation_compiled(a)
      [] o = "get_temperature_compensation_compiled" ->
             get_temperature_compensation_compiled
      [] o = "get_humidity_compensation_compiled" ->
             get_humidity_compensation_compiled
      [] o = "AQI"                      -> AQI
      [] o = "ECO2"                     -> ECO2
      [] o = "TVOC"                     -> TVOC

\* ------------------------------------------------------------------------
\* Inputs
\* ------------------------------------------------------------------------
\* Callers (tasks) that use the one controller.
NumProcs == 2
Procs == 1..NumProcs

\* Values setMode is called with: the four modes and values outside them.
ModeInputs == {0, 1, 2, 240, 3, 255, -16}
TempInputs == {2500, 2550, -4000}
HumInputs == {5000, 5100, 100, 0}

\* What the OPMODE register may hold when the controller is constructed.
PowerOnModes == {0, 1, 2, 240, 3}

\* Byte pairs a read of PART_ID may return.
PartIdBytes == {0, 1, 96, 97, 129, 224, 255}
PartIdReads == {<<a, b>> : a \in PartIdBytes, b \in PartIdBytes}

\* Contents a read of the general-purpose bank may return.
GprReads == {<<0, 0, 0, 0, 1, 4, 2, 0>>, <<9, 9, 9, 9, 0, 0, 0, 9>>,
             <<0, 0, 0, 0, 255, 10, 7, 255>>}

\* Bytes a read of AQI may return, and byte pairs a read of TVOC, ECO2 or of
\* a compensation read-back register may return.
AqiReads == {<<b>> : b \in {0, 1, 5, 127, 128, 255}}
WordReads == {<<0, 0>>, <<144, 1>>, <<1, 144>>, <<255, 127>>, <<0, 128>>,
              <<255, 255>>, <<74, 138>>, <<100, 0>>}

\* The methods a caller may invoke, with their arguments.  The constructor is
\* public, so a method can run on a controller that open() did not set up;
\* private is a compile-time mark only, so setMode and getMode are callable.
Calls ==
    {<<"open", 1>>, <<"reset", 0>>, <<"getMode", 0>>, <<"check", 0>>,
     <<"clear_command", 0>>, <<"firmware_version", 0>>, <<"status", 0>>,
     <<"get_temperature_compensation", 0>>, <<"get_humidity_compensation", 0>>,
     <<"AQI", 0>>, <<"ECO2", 0>>, <<"TVOC", 0>>,
     <<"open_compiled", 1>>,
     <<"get_temperature_compensation_compiled", 0>>,
     <<"get_humidity_compensation_compiled", 0>>}
    \cup {<<"setMode", m>> : m \in ModeInputs}
    \cup {<<"temperature_compensation", t>> : t \in TempInputs}
    \cup {<<"temperature_compensation_compiled", t>> : t \in TempInputs}
    \cup {<<"humidity_compensation", h>> : h \in HumInputs}

\* ------------------------------------------------------------------------
\* State
\* ------------------------------------------------------------------------
VARIABLES
    dev,       \* device registers written by the driver: register -> bytes
    lastMode,  \* <<m>>: the byte of the last successful OPMODE write; <<>>: none
    st,        \* per caller: "idle", "running", "done" (resolved), "failed"
    op,        \* per caller: the operation in flight
    arg,       \* per caller: its argument
    pc,        \* per caller: index of the next step of Program
    curr,      \* per caller: firmware_version's local curr
    buf,       \* per caller: the bytes of the last successful read
    err,       \* per caller: the error the operation rejected with
    log        \* per caller: the steps the operation has run, in order

vars == <<dev, lastMode, st, op, arg, pc, curr, buf, err, log>>

WritableRegs ==
    {ENS160_CMD_OPMODE, ENS160_CMD_COMMAND, ENS160_CMD_TEMPIN, ENS160_CMD_RHIN}

\* What a 2-byte read-back register returns when the device echoes the two
\* bytes last written to the input register reg.
Echo(reg) == IF Len(dev[reg]) = 2 THEN {dev[reg]} ELSE {}

\* The bytes a successful read of register reg may return.
DeviceRead(reg) ==
    CASE reg = ENS160_CMD_OPMODE  -> {dev[ENS160_CMD_OPMODE]}
      [] reg = ENS160_CMD_PARTID  -> PartIdReads
      [] reg = ENS160_CMD_READGPR -> GprReads
      [] reg = ENS160_CMD_STATUS  -> {<<b>> : b \in Byte}
      [] reg = ENS160_CMD_AQI     -> AqiReads
      [] reg = ENS160_CMD_T       -> WordReads \cup Echo(ENS160_CMD_TEMPIN)
      [] reg = ENS160_CMD_RH      -> WordReads \cup Echo(ENS160_CMD_RHIN)
      [] OTHER                    -> WordReads

Prog(p) == Program(op[p], arg[p], curr[p])
Step(p) == Prog(p)[pc[p]]

Init ==
    /\ dev \in {[r \in WritableRegs |->
                    IF r = ENS160_CMD_OPMODE THEN <<m>> ELSE <<>>]
                : m \in PowerOnModes}
    /\ lastMode = <<>>
    /\ st = [p \in Procs |-> "idle"]
    /\ op = [p \in Procs |-> "none"]
    /\ arg = [p \in Procs |-> 0]
    /\ pc = [p \in Procs |-> 1]
    /\ curr = [p \in Procs |-> 0]
    /\ buf = [p \in Procs |-> <<>>]
    /\ err = [p \in Procs |-> "none"]
    /\ log = [p \in Procs |-> <<>>]

\* A caller invokes operation o with argument a.
Call(p, o, a) ==
    /\ st[p] = "idle"
    /\ st' = [st EXCEPT ![p] = "running"]
    /\ op' = [op EXCEPT ![p] = o]
    /\ arg' = [arg EXCEPT ![p] = a]
    /\ pc' = [pc EXCEPT ![p] = 1]
    /\ UNCHANGED <<dev, lastMode, curr, buf, err, log>>

\* The step at pc has run and left entry e in the log: the method goes on to
\* its next step, or returns when that was its last one.  c is curr after it.
Advance(p, e, c) ==
    /\ log' = [log EXCEPT ![p] = Append(@, e)]
    /\ pc' = [pc EXCEPT ![p] = @ + 1]
    /\ curr' = [curr EXCEPT ![p] = c]
    /\ st' = [st EXCEPT ![p] =
                IF pc[p] = Len(Program(op[p], arg[p], c)) THEN "done" ELSE @]
    /\ UNCHANGED <<op, arg, err>>

\* The step at pc has thrown e: catch (err) { throw err; } in every enclosing
\* method passes it to the caller, and nothing more runs.
Reject(p, entry, e) ==
    /\ log' = [log EXCEPT ![p] = Append(@, entry)]
    /\ st' = [st EXCEPT ![p] = "failed"]
    /\ err' = [err EXCEPT ![p] = e]
    /\ UNCHANGED <<op, arg, pc, curr>>

\* What a step leaves in the log: the bus call as issued, the bytes that
\* went over the bus, and whether the call resolved (ok) or rejected.
Entry(s, data, ok) ==
    CASE s.k = "open"  -> [k |-> "open", bus |-> s.bus, ok |-> ok]
      [] s.k = "sleep" -> [k |-> "sleep", ms |-> s.ms]
      [] OTHER         -> [k |-> s.k, reg |-> s.reg, len |-> s.len,
                           data |-> data, ok |-> ok]

\* i2c.openPromisified resolves.
BusOpen(p) ==
    /\ st[p] = "running"
    /\ Step(p).k = "open"
    /\ Advance(p, Entry(Step(p), <<>>, TRUE), curr[p])
    /\ UNCHANGED <<dev, lastMode, buf>>

\* A block write succeeds: the device takes the bytes.
BusWrite(p) ==
    /\ st[p] = "running"
    /\ Step(p).k = "write"
    /\ LET s == Step(p)
           bytes == SubSeq(s.data, 1, s.len)
       IN  /\ dev' = [dev EXCEPT ![s.reg] = bytes]
           /\ lastMode' = IF s.reg = ENS160_CMD_OPMODE THEN bytes ELSE lastMode
           /\ Advance(p, Entry(s, bytes, TRUE), curr[p])
    /\ UNCHANGED buf

\* A block read succeeds with some bytes the device may hold there; in
\* firmware_version the value getMode returns becomes curr, and check compares
\* the bytes with the part id.
BusRead(p) ==
    /\ st[p] = "running"
    /\ Step(p).k = "read"
    /\ \E data \in DeviceRead(Step(p).reg) :
         LET s == Step(p)
         IN  /\ buf' = [buf EXCEPT ![p] = data]
             /\ IF s.use = "check" /\ ~check_ok(data)
                THEN Reject(p, Entry(s, data, TRUE), "Could not locate ENS160!")
                ELSE /\ Advance(p, Entry(s, data, TRUE),
                                IF op[p] = "firmware_version" /\ s.reg = ENS160_CMD_OPMODE
                                THEN getMode_return(data) ELSE curr[p])
                     /\ UNCHANGED err
    /\ UNCHANGED <<dev, lastMode>>

\* A driver that swallows a rejected bus call and issues it again.
BusFail_Retry(p) ==
    /\ st[p] = "running"
    /\ Step(p).k \in {"open", "read", "write"}
    /\ Len(log[p]) < 14
    /\ log' = [log EXCEPT ![p] =
                 Append(@, Entry(Step(p), IF Step(p).k = "write"
                                          THEN Step(p).data ELSE <<>>, FALSE))]
    /\ UNCHANGED <<dev, lastMode, st, op, arg, pc, curr, buf, err>>

\* A bus call (open, read or write) rejects: the device is not changed.
BusFail(p) ==
    /\ st[p] = "running"
    /\ Step(p).k \in {"open", "read", "write"}
    /\ Reject(p, Entry(Step(p), IF Step(p).k = "write" THEN Step(p).data
                                ELSE <<>>, FALSE), "BusError")
    /\ UNCHANGED <<dev, lastMode, buf>>

\* await sleep(ms) resolves.
DoSleep(p) ==
    /\ st[p] = "running"
    /\ Step(p).k = "sleep"
    /\ Advance(p, Entry(Step(p), <<>>, TRUE), curr[p])
    /\ UNCHANGED <<dev, lastMode, buf, err>>

\* A step that touches neither the bus nor the clock: a throw, or an
\* if (!value) throw.
Local(p) ==
    /\ st[p] = "running"
    /\ Step(p).k \in {"throw", "ifnot"}
    /\ IF Step(p).k = "throw" \/ ~Step(p).value
       THEN /\ st' = [st EXCEPT ![p] = "failed"]
            /\ err' = [err EXCEPT ![p] = Step(p).err]
            /\ UNCHANGED <<pc, curr, log>>
       ELSE /\ pc' = [pc EXCEPT ![p] = @ + 1]
            /\ st' = [st EXCEPT ![p] = IF pc[p] = Len(Prog(p)) THEN "done" ELSE @]
            /\ UNCHANGED <<err, curr, log>>
    /\ UNCHANGED <<dev, lastMode, op, arg, buf>>

\* The caller has taken the result (or the error) of its operation.
Ack(p) ==
    /\ st[p] \in {"done", "failed"}
    /\ st' = [st EXCEPT ![p] = "idle"]
    /\ op' = [op EXCEPT ![p] = "none"]
    /\ arg' = [arg EXCEPT ![p] = 0]
    /\ pc' = [pc EXCEPT ![p] = 1]
    /\ curr' = [curr EXCEPT ![p] = 0]
    /\ buf' = [buf EXCEPT ![p] = <<>>]
    /\ err' = [err EXCEPT ![p] = "none"]
    /\ log' = [log EXCEPT ![p] = <<>>]
    /\ UNCHANGED <<dev, lastMode>>

\* The value a resolved operation hands to its caller.
Result(p) ==
    CASE op[p] = "getMode"          -> getMode_return(buf[p])
      [] op[p] = "status"           -> status_return(buf[p])
      [] op[p] = "firmware_version" -> firmware_version_return(buf[p])
      [] op[p] = "get_temperature_compensation" ->
             get_temperature_compensation_return(buf[p])
      [] op[p] = "get_humidity_compensation" ->
             get_humidity_compensation_return(buf[p])
      [] op[p] = "get_temperature_compensation_compiled" ->
             get_temperature_compensation_compiled_return(buf[p])
      [] op[p] = "get_humidity_compensation_compiled" ->
             get_humidity_compensation_compiled_return(buf[p])
      [] op[p] \in {"AQI", "ECO2", "TVOC"} -> measurement_return(buf[p])
      [] op[p] \in {"open", "open_compiled"} -> "sensor"
      [] OTHER                      -> TRUE

\* Callers serialize access: an operation starts only when none is in flight
\* and every earlier result has been taken.
Serialized == \A q \in Procs : st[q] = "idle"

Next ==
    \E p \in Procs :
        \/ (Serialized /\ \E c \in Calls : Call(p, c[1], c[2]))
        \/ BusOpen(p)
        \/ BusWrite(p)
        \/ BusRead(p)
        \/ BusFail(p)
        \/ DoSleep(p)
        \/ Local(p)
        \/ Ack(p)

Spec == Init /\ [][Next]_vars

\* Two callers that do not serialize: each starts firmware_version(),
\* clear_command() or reset() whenever it is idle itself, whatever the other
\* has in flight, and every await of one is a point where the other may run.
ConcProcs == {p \in Procs : p <= 2}

ConcCalls == {<<"firmware_version", 0>>, <<"clear_command", 0>>, <<"reset", 0>>}

NextConc ==
    \E p \in ConcProcs :
        \/ \E c \in ConcCalls : Call(p, c[1], c[2])
        \/ BusWrite(p)
        \/ BusRead(p)
        \/ BusFail(p)
        \/ DoSleep(p)
        \/ Local(p)
        \/ Ack(p)

SpecConc == Init /\ [][NextConc]_vars

\* ------------------------------------------------------------------------
\* Properties
\* ------------------------------------------------------------------------
Finished(p) == st[p] \in {"done", "failed"}

\* The bus transactions (block reads and writes) of a log, in order.
BusOps(l) == SelectSeq(l, LAMBDA e : e.k \in {"read", "write"})

\* A bus transaction as seen on the wire: kind, register, and the bytes
\* written (what) or the number of bytes asked for (<<len>>).
Wire(e) ==
    [k |-> e.k, reg |-> e.reg,
     what |-> IF e.k = "write" THEN e.data ELSE <<e.len>>]

WireSeq(l) == [i \in 1..Len(BusOps(l)) |-> Wire(BusOps(l)[i])]

IsPrefix(s, t) == Len(s) <= Len(t) /\ s = SubSeq(t, 1, Len(s))

\* The first six transactions of initialization, with their bytes.
InitHead ==
    << [k |-> "write", reg |-> 16, what |-> <<240>>],   \* OPMODE <- Reset
       [k |-> "read",  reg |-> 0,  what |-> <<2>>],     \* PART_ID, 2 bytes
       [k |-> "write", reg |-> 16, what |-> <<1>>],     \* OPMODE <- Idle
       [k |-> "write", reg |-> 18, what |-> <<0>>],     \* COMMAND <- NOP
       [k |-> "write", reg |-> 18, what |-> <<204>>],   \* COMMAND <- ClearGPR
       [k |-> "write", reg |-> 16, what |-> <<2>>] >>   \* OPMODE <- Standard

\* C1: open()/init() issues its bus transactions in exactly this order and no
\* others: write OPMODE<-Reset, read PART_ID (2 bytes), write OPMODE<-Idle,
\* write COMMAND<-NOP, write COMMAND<-ClearGPR, write OPMODE<-Standard, write
\* TEMP_IN, write RH_IN.  At every moment of an initialization what has been
\* issued is a prefix of that sequence, and a resolved initialization has
\* issued all eight.
C1_InitOrder ==
    \A p \in Procs :
        op[p] = "open" =>
            LET w == WireSeq(log[p])
            IN  /\ Len(w) <= 8
                /\ IsPrefix(SubSeq(w, 1, IF Len(w) < 6 THEN Len(w) ELSE 6),
                            InitHead)
                /\ Len(w) >= 7 => w[7].k = "write" /\ w[7].reg = 19
                /\ Len(w) >= 8 => w[8].k = "write" /\ w[8].reg = 21
                /\ st[p] = "done" => Len(w) = 8

C1_Witness ==
    \E p \in Procs :
        op[p] = "open" /\ st[p] = "done" /\ Len(BusOps(log[p])) = 8

\* C4: setMode(v) with any v outside {0x00, 0x01, 0x02, 0xF0} fails with the
\* invalid-mode error and issues no bus operation at all.
C4_InvalidModeNoBus ==
    \A p \in Procs :
        (op[p] = "setMode" /\ arg[p] \notin {0, 1, 2, 240}) =>
            /\ log[p] = <<>>
            /\ st[p] # "done"
            /\ st[p] = "failed" => err[p] = "InvalidMode"

C4_Witness ==
    \E p \in Procs :
        /\ op[p] = "setMode" /\ arg[p] \notin {0, 1, 2, 240}
        /\ st[p] = "failed" /\ err[p] = "InvalidMode"

\* The bus calls of a log that rejected.
IsBusCall(e) == e.k \in {"open", "read", "write"}

\* C6: every operation is fail-fast with no retry.  A rejected bus call is
\* the last thing its operation did, it was issued once, and the operation
\* has failed with the bus error; an initialization whose identity check
\* failed has issued nothing after the PART_ID read; a failed open() has not
\* resolved, so it yields no controller.
C6_FailFast ==
    \A p \in Procs :
        /\ \A i \in 1..Len(log[p]) :
             (IsBusCall(log[p][i]) /\ ~log[p][i].ok) =>
                /\ i = Len(log[p])
                /\ st[p] = "failed"
                /\ err[p] = "BusError"
        /\ \A i \in 1..Len(log[p]) :
             (/\ op[p] = "open"
              /\ log[p][i].k = "read" /\ log[p][i].reg = 0 /\ log[p][i].ok
              /\ log[p][i].data # <<96, 1>>) =>
                /\ i = Len(log[p])
                /\ st[p] = "failed"
        /\ (op[p] = "open" /\ st[p] = "done") =>
             \A i \in 1..Len(log[p]) : IsBusCall(log[p][i]) => log[p][i].ok

\* An initialization that failed at its ClearGPR write, after four bus
\* transactions had gone through.
C6_Witness ==
    \E p \in Procs :
        /\ op[p] = "open" /\ st[p] = "failed" /\ err[p] = "BusError"
        /\ Len(BusOps(log[p])) = 5
        /\ ~log[p][Len(log[p])].ok
        /\ log[p][Len(log[p])].data = <<204>>

\* No write has reached the device since the controller was constructed.
NothingWritten ==
    /\ lastMode = <<>>
    /\ \A r \in WritableRegs \ {ENS160_CMD_OPMODE} : dev[r] = <<>>

\* C8: check() performs exactly one 2-byte read of PART_ID (0x00) and no
\* write; it succeeds if and only if the bytes read are [0x60, 0x01], and
\* fails with the identity-mismatch error for every other pair.  (The test
\* on the bytes depends on nothing else, so the sweep over all 65536 pairs is
\* made at a check that succeeds before anything has been written.)
C8_CheckIdentity ==
    \A p \in Procs :
        op[p] = "check" =>
            /\ st[p] = "running" => log[p] = <<>>
            /\ Finished(p) =>
                 /\ Len(log[p]) = 1
                 /\ log[p][1].k = "read"
                 /\ log[p][1].reg = 0
                 /\ log[p][1].len = 2
                 /\ log[p][1].ok =>
                      /\ st[p] = "done" <=> log[p][1].data = <<96, 1>>
                      /\ st[p] = "failed" => err[p] = "Could not locate ENS160!"
                 /\ (st[p] = "done" /\ NothingWritten) =>
                      \A a \in Byte, b \in Byte :
                          check_ok(<<a, b>>) <=> (a = 96 /\ b = 1)

C8_Witness ==
    \E p \in Procs :
        op[p] = "check" /\ st[p] = "done" /\ buf[p] = <<96, 1>>

\* C9: clear_command() issues exactly two 1-byte writes to COMMAND (0x12),
\* NOP (0x00) then ClearGPR (0xCC); and in every operation a ClearGPR write
\* comes right after a NOP write of the same operation that went through.
C9_NopThenClear ==
    \A p \in Procs :
        /\ op[p] = "clear_command" =>
             /\ IsPrefix(WireSeq(log[p]),
                         << [k |-> "write", reg |-> 18, what |-> <<0>>],
                            [k |-> "write", reg |-> 18, what |-> <<204>>] >>)
             /\ \A i \in 1..Len(BusOps(log[p])) : BusOps(log[p])[i].len = 1
             /\ st[p] = "done" => Len(BusOps(log[p])) = 2
        /\ \A i \in 1..Len(log[p]) :
             (/\ log[p][i].k = "write" /\ log[p][i].reg = 18
              /\ log[p][i].data = <<204>>) =>
                /\ i > 1
                /\ log[p][i - 1] = [k |-> "write", reg |-> 18, len |-> 1,
                                    data |-> <<0>>, ok |-> TRUE]

C9_Witness ==
    \E p \in Procs :
        /\ op[p] = "clear_command" /\ st[p] = "done"
        /\ Len(BusOps(log[p])) = 2

\* The operation ran to its end, or to a throw, with every bus call resolved.
NoBusFailure(p) ==
    \A i \in 1..Len(log[p]) : IsBusCall(log[p][i]) => log[p][i].ok

\* C2: for every mode m in {Sleep 0x00, Idle 0x01, Standard 0x02, Reset 0xF0}
\* held by the mode register before the call (no bus failure, the device
\* echoes writes), firmware_version() completes successfully and the mode
\* register holds m again afterwards.
C2_VersionRestoresMode ==
    \A p \in Procs :
        (/\ op[p] = "firmware_version" /\ Finished(p) /\ NoBusFailure(p)
         /\ log[p][1].data[1] \in {0, 1, 2, 240}) =>
            /\ st[p] = "done"
            /\ dev[ENS160_CMD_OPMODE] = log[p][1].data

\* C3: once firmware_version() has forced Idle, a failure of the NOP,
\* ClearGPR or GetAppVersion write or of the GPR read still has the saved
\* mode written back: the failed operation leaves the mode register holding
\* the mode it read at its start.
C3_RestoreOnFailure ==
    \A p \in Procs :
        (/\ op[p] = "firmware_version" /\ st[p] = "failed"
         /\ err[p] = "BusError"
         /\ log[p][Len(log[p])].k \in {"read", "write"}
         /\ log[p][Len(log[p])].reg \in {18, 72}) =>
            dev[ENS160_CMD_OPMODE] = log[p][1].data

\* C5: for every valid mode m, setMode(m) followed by getMode() on a device
\* that echoes the byte written to OPMODE returns m.
C5_SetThenGet ==
    \A p \in Procs :
        (op[p] = "getMode" /\ st[p] = "done" /\ lastMode # <<>>) =>
            Result(p) = lastMode[1]

\* C7: when the identity check fails during initialization (the PART_ID bytes
\* differ from [0x60, 0x01]), initialization fails with the init-level error
\* "Could not detect!", not with the error of a direct check().
C7_InitDeviceNotDetected ==
    \A p \in Procs :
        (/\ op[p] = "open" /\ st[p] = "failed" /\ NoBusFailure(p)
         /\ log[p][Len(log[p])].k = "read"
         /\ log[p][Len(log[p])].reg = 0) =>
            err[p] = "Could not detect!"

\* C10: for every status byte b, status() returns opmode = bit 7 of b,
\* error = bit 6 of b, and the validity status named by the two-bit field of
\* bits 3-2 of b (0 normal, 1 warmup, 2 startup, 3 invalid).
C10_StatusDecode ==
    \A p \in Procs :
        (op[p] = "status" /\ st[p] = "done") =>
            LET b == buf[p][1]
                field == (b \div 4) % 4
            IN  /\ Result(p).opmode = ((b \div 128) % 2 = 1)
                /\ Result(p).error = ((b \div 64) % 2 = 1)
                /\ Result(p).status = CASE field = 0 -> "normal"
                                        [] field = 1 -> "warmup"
                                        [] field = 2 -> "startup"
                                        [] field = 3 -> "invalid"

\* C11 (as stated): status() given the byte 0b10010000 returns
\* {opmode: true, error: false, status: warmup}.
C11_StatusWarmupExample ==
    \A p \in Procs :
        (op[p] = "status" /\ st[p] = "done" /\ buf[p] = <<144>>) =>
            Result(p) = [opmode |-> TRUE, error |-> FALSE, status |-> "warmup"]

\* C11: status() given the byte 0b10010000 (bit 7 set, bit 6 clear, bits 3-2
\* both clear) returns {opmode: true, error: false, status: normal}.
C11_StatusNormalExample ==
    \A p \in Procs :
        (op[p] = "status" /\ st[p] = "done" /\ buf[p] = <<144>>) =>
            Result(p) = [opmode |-> TRUE, error |-> FALSE, status |-> "normal"]

C11_Witness ==
    \E p \in Procs :
        /\ op[p] = "status" /\ st[p] = "done" /\ buf[p] = <<144>>
        /\ log[p][1].reg = 32 /\ log[p][1].ok

\* C12: AQI(), TVOC() and ECO2() return the register content decoded as a
\* little-endian unsigned integer of the register's width, for every content:
\* AQI() the byte itself (0..255), TVOC() and ECO2() low + 256 * high
\* (0..65535), never a negative number.
C12_UnsignedMeasurement ==
    \A p \in Procs :
        (op[p] \in {"AQI", "TVOC", "ECO2"} /\ st[p] = "done") =>
            /\ Result(p) = UIntLE(buf[p], Len(buf[p]))
            /\ Result(p) >= 0
            /\ op[p] = "AQI" => Len(buf[p]) = 1 /\ Result(p) \in 0..255
            /\ op[p] # "AQI" => Len(buf[p]) = 2 /\ Result(p) \in 0..65535

\* C13: temperature_compensation(t) and humidity_compensation(h) write their
\* 16-bit value in little-endian byte order, low byte first: 25.5 C ->
\* 19114 = 0x4AAA is written as [0xAA, 0x4A], 50 %RH -> 25600 = 0x6400 as
\* [0x00, 0x64].
C13_LittleEndianWrite ==
    \A p \in Procs :
        /\ (op[p] = "temperature_compensation" /\ st[p] = "done") =>
             /\ log[p][1].reg = 19
             /\ log[p][1].data = <<temperature_k64(arg[p]) % 256,
                                   temperature_k64(arg[p]) \div 256>>
             /\ arg[p] = 2550 => log[p][1].data = <<170, 74>>
        /\ (op[p] = "humidity_compensation" /\ st[p] = "done") =>
             /\ log[p][1].reg = 21
             /\ log[p][1].data = <<humidity_k64(arg[p]) % 256,
                                   humidity_k64(arg[p]) \div 256>>
             /\ arg[p] = 5000 => log[p][1].data = <<0, 100>>

\* The getters that read a compensation value back.
TemperatureGetters ==
    {"get_temperature_compensation", "get_temperature_compensation_compiled"}

HumidityGetters ==
    {"get_humidity_compensation", "get_humidity_compensation_compiled"}

\* C14: temperature compensation round-trips.  For every temperature t in
\* tenths of a degree within -40.0..85.0 C, temperature_compensation(t)
\* writes the two bytes of ceil((t + 273.15) * 64) to TEMP_IN, and a
\* get_temperature_compensation() that reads back the bytes so written
\* returns a value within 0.1 of t.
C14_TemperatureRoundTrip ==
    \A p \in Procs :
        /\ (/\ op[p] = "temperature_compensation" /\ st[p] = "done"
            /\ arg[p] % 10 = 0 /\ arg[p] >= -4000 /\ arg[p] <= 8500) =>
              /\ log[p][1].reg = 19 /\ log[p][1].len = 2
              /\ UIntBE(log[p][1].data, 2) = -((-(arg[p] + 27315) * 64) \div 100)
        /\ (/\ op[p] \in TemperatureGetters /\ st[p] = "done"
            /\ buf[p] = dev[ENS160_CMD_TEMPIN]) =>
              \A t \in TempInputs :
                  (/\ t % 10 = 0 /\ t >= -4000 /\ t <= 8500
                   /\ temperature_compensation(t)[1].data = buf[p]) =>
                      /\ 10 * Result(p) - t <= 10
                      /\ t - 10 * Result(p) <= 10

\* C15: humidity compensation round-trips.  For every whole-percent humidity
\* h in 0..100, humidity_compensation(h) writes the two bytes of
\* ceil(h * 512) to RH_IN, and a get_humidity_compensation() that reads back
\* the bytes so written returns h.
C15_HumidityRoundTrip ==
    \A p \in Procs :
        /\ (/\ op[p] = "humidity_compensation" /\ st[p] = "done"
            /\ arg[p] % 100 = 0 /\ arg[p] >= 0 /\ arg[p] <= 10000) =>
              /\ log[p][1].reg = 21 /\ log[p][1].len = 2
              /\ Len(log[p][1].data) = 2
              /\ \/ UIntBE(log[p][1].data, 2) = 512 * (arg[p] \div 100)
                 \/ UIntLE(log[p][1].data, 2) = 512 * (arg[p] \div 100)
        /\ (/\ op[p] \in HumidityGetters /\ st[p] = "done"
            /\ buf[p] = dev[ENS160_CMD_RHIN]) =>
              \A h \in HumInputs :
                  (/\ h % 100 = 0 /\ h >= 0 /\ h <= 10000
                   /\ humidity_compensation(h)[1].data = buf[p]) =>
                      10 * Result(p) = h

\* C16: the last step of a successful initialization applies the default
\* compensation 25.5 C and 51 %RH: after the Standard mode write, init writes
\* the encoding of 19114 to TEMP_IN and then the encoding of 26112 to RH_IN
\* (two bytes each, in either byte order), and nothing after them.
C16_DefaultCompensation ==
    \A p \in Procs :
        (op[p] = "open" /\ st[p] = "done") =>
            LET b == BusOps(log[p])
                n == Len(b)
            IN  /\ n >= 3
                /\ b[n - 2].k = "write" /\ b[n - 2].reg = 16
                /\ b[n - 2].data = <<2>>
                /\ b[n - 1].k = "write" /\ b[n - 1].reg = 19
                /\ Len(b[n - 1].data) = 2
                /\ \/ UIntBE(b[n - 1].data, 2) = 19114
                   \/ UIntLE(b[n - 1].data, 2) = 19114
                /\ b[n].k = "write" /\ b[n].reg = 21
                /\ Len(b[n].data) = 2
                /\ \/ UIntBE(b[n].data, 2) = 26112
                   \/ UIntLE(b[n].data, 2) = 26112

\* The register and the length each read operation asks the bus for.
ReadOps ==
    {"AQI", "TVOC", "ECO2", "status", "get_temperature_compensation",
     "get_humidity_compensation", "get_temperature_compensation_compiled",
     "get_humidity_compensation_compiled"}

ReadOf(o) ==
    CASE o = "AQI"    -> <<33, 1>>
      [] o = "TVOC"   -> <<34, 2>>
      [] o = "ECO2"   -> <<36, 2>>
      [] o = "status" -> <<32, 1>>
      [] o \in TemperatureGetters -> <<48, 2>>
      [] o \in HumidityGetters    -> <<50, 2>>

\* C17: steady-state reads leave the device untouched.  Whatever AQI(),
\* TVOC(), ECO2(), status(), get_temperature_compensation() or
\* get_humidity_compensation() does once called is a single bus read of its
\* own register (0x21/1 byte, 0x22/2, 0x24/2, 0x20/1, 0x30/2, 0x32/2), after
\* which it has ended; it issues no bus write, and the mode, command and
\* compensation-input registers are what they were.
C17_ReadsLeaveDevice ==
    [][\A p \in Procs :
         (op[p] \in ReadOps /\ st[p] = "running") =>
            /\ log[p] = <<>>
            /\ Len(log'[p]) = 1
            /\ log'[p][1].k = "read"
            /\ log'[p][1].reg = ReadOf(op[p])[1]
            /\ log'[p][1].len = ReadOf(op[p])[2]
            /\ st'[p] \in {"done", "failed"}
            /\ st'[p] = "done" <=> log'[p][1].ok
            /\ dev' = dev
            /\ lastMode' = lastMode]_vars

\* A read operation that resolved on a device initialization has set up.
C17_Witness ==
    \E p \in Procs :
        /\ op[p] \in ReadOps /\ st[p] = "done"
        /\ Len(log[p]) = 1 /\ log[p][1].k = "read"
        /\ lastMode = <<2>>
        /\ dev[ENS160_CMD_TEMPIN] = <<74, 138>>
        /\ dev[ENS160_CMD_RHIN] = <<100, 0>>

\* The decimal numeral of a byte, as characters.
Numeral(b) ==
    LET c(d) == CASE d = 0 -> "0" [] d = 1 -> "1" [] d = 2 -> "2"
                  [] d = 3 -> "3" [] d = 4 -> "4" [] d = 5 -> "5"
                  [] d = 6 -> "6" [] d = 7 -> "7" [] d = 8 -> "8"
                  [] d = 9 -> "9"
    IN  IF b < 10 THEN <<c(b)>>
        ELSE IF b < 100 THEN <<c(b \div 10), c(b % 10)>>
        ELSE <<c(b \div 100), c((b \div 10) % 10), c(b % 10)>>

\* 'major.minor.patch' for bytes 4, 5 and 6 (counted from 0) of a bank.
VersionString(bank) ==
    Numeral(bank[5]) \o <<".">> \o Numeral(bank[6]) \o <<".">>
    \o Numeral(bank[7])

\* C18: firmware_version() returns the string 'major.minor.patch' where
\* major, minor and patch are the unsigned decimal values of bytes 4, 5 and 6
\* of the 8-byte bank read at 0x48 ([_,_,_,_,1,4,2,_] -> '1.4.2'), whatever
\* the bank holds: putting any byte value at any one position of the bank
\* read gives the string for the changed bytes 4-6, so a change of bytes 0-3
\* or 7 changes nothing.  (The string depends on the bank alone, so the sweep
\* is made where no compensation value has been written.)
C18_VersionString ==
    \A p \in Procs :
        (op[p] = "firmware_version" /\ st[p] = "done") =>
            /\ Len(buf[p]) = 8
            /\ log[p][Len(log[p]) - 2].k = "read"
            /\ log[p][Len(log[p]) - 2].reg = 72
            /\ log[p][Len(log[p]) - 2].data = buf[p]
            /\ Result(p) = VersionString(buf[p])
            /\ buf[p] = <<0, 0, 0, 0, 1, 4, 2, 0>> =>
                 Result(p) = <<"1", ".", "4", ".", "2">>
            /\ (dev[ENS160_CMD_TEMPIN] = <<>> /\ dev[ENS160_CMD_RHIN] = <<>>) =>
                 \A i \in 1..8, x \in Byte :
                     LET bank == [buf[p] EXCEPT ![i] = x]
                     IN  /\ firmware_version_return(bank) = VersionString(bank)
                         /\ i \in {1, 2, 3, 4, 8} =>
                              firmware_version_return(bank) = Result(p)

C18_Witness ==
    \E p \in Procs :
        /\ op[p] = "firmware_version" /\ st[p] = "done"
        /\ buf[p] = <<0, 0, 0, 0, 255, 10, 7, 255>>
        /\ Result(p) = <<"2", "5", "5", ".", "1", "0", ".", "7">>

\* The first six transactions of firmware_version, with their bytes.
VersionHead ==
    << [k |-> "read",  reg |-> 16, what |-> <<1>>],     \* OPMODE, 1 byte
       [k |-> "write", reg |-> 16, what |-> <<1>>],     \* OPMODE <- Idle
       [k |-> "write", reg |-> 18, what |-> <<0>>],     \* COMMAND <- NOP
       [k |-> "write", reg |-> 18, what |-> <<204>>],   \* COMMAND <- ClearGPR
       [k |-> "write", reg |-> 18, what |-> <<14>>],    \* COMMAND <- GetAppVersion
       [k |-> "read",  reg |-> 72, what |-> <<8>>] >>   \* bank, 8 bytes

\* C19: the driver provides no internal locking.  With two callers that do
\* not serialize, the bus operations of two firmware_version() calls
\* interleave and neither call notices the other: each still issues its own
\* seven transactions in order, and a call that resolves has written back
\* exactly the byte its own first read returned, be it the Idle the other
\* call had forced; when both have resolved, the mode register holds the
\* byte one of the two read at its start, whichever restored last.
C19_UnlockedVersionCalls ==
    \A p \in ConcProcs :
        op[p] = "firmware_version" =>
            LET b == BusOps(log[p])
                w == WireSeq(log[p])
            IN  /\ IsPrefix(SubSeq(w, 1, IF Len(w) < 6 THEN Len(w) ELSE 6),
                            VersionHead)
                /\ st[p] = "done" =>
                     /\ Len(b) = 7
                     /\ b[7].k = "write" /\ b[7].reg = 16 /\ b[7].ok
                     /\ b[7].data = b[1].data
                     /\ \A q \in ConcProcs \ {p} :
                          (op[q] = "firmware_version" /\ st[q] = "done") =>
                             dev[ENS160_CMD_OPMODE]
                                 \in {b[1].data, BusOps(log[q])[1].data}

\* The corrupting interleaving: two overlapping firmware_version() calls have
\* both resolved, with every bus call gone through; the first read Standard,
\* the mode active before the calls, the second read the Idle the first had
\* forced, and the mode register is left in Idle.
C19_Witness ==
    \E p \in ConcProcs, q \in ConcProcs :
        /\ p # q
        /\ op[p] = "firmware_version" /\ st[p] = "done" /\ NoBusFailure(p)
        /\ op[q] = "firmware_version" /\ st[q] = "done" /\ NoBusFailure(q)
        /\ log[p][1].data = <<2>>
        /\ log[q][1].data = <<1>>
        /\ dev[ENS160_CMD_OPMODE] = <<1>>

\* C20: command protocol only in Idle.  In every reachable state, a write the
\* driver has just made to COMMAND (0x12) was made while the mode it most
\* recently wrote to OPMODE is Idle.  (A controller that has not written any
\* mode yet is left out.)
C20_CommandOnlyInIdle ==
    \A p \in Procs :
        (/\ log[p] # <<>>
         /\ log[p][Len(log[p])].k = "write"
         /\ log[p][Len(log[p])].reg = 18
         /\ log[p][Len(log[p])].ok
         /\ lastMode # <<>>) =>
            lastMode = <<1>>

\* C21: firmware_version() issues exactly this bus sequence, in order, and no
\* other bus operation: read OPMODE (1 byte), write OPMODE<-Idle, write
\* COMMAND<-NOP, write COMMAND<-ClearGPR, write COMMAND<-GetAppVersion, read
\* the 8-byte bank at 0x48, write OPMODE<-saved mode.  At every moment what
\* has been issued is a prefix of that sequence, and the version is returned
\* only when all seven have gone through, the restoring write last.
C21_VersionSequence ==
    \A p \in Procs :
        op[p] = "firmware_version" =>
            LET w == WireSeq(log[p])
            IN  /\ Len(w) <= 7
                /\ IsPrefix(SubSeq(w, 1, IF Len(w) < 6 THEN Len(w) ELSE 6),
                            VersionHead)
                /\ Len(w) >= 7 =>
                     /\ w[7].k = "write" /\ w[7].reg = 16
                     /\ w[7].what = BusOps(log[p])[1].data
                /\ st[p] = "done" =>
                     /\ Len(w) = 7
                     /\ NoBusFailure(p)
                     /\ log[p][Len(log[p]) - 1].k = "write"
                     /\ log[p][Len(log[p]) - 1].reg = 16

C21_Witness ==
    \E p \in Procs :
        /\ op[p] = "firmware_version" /\ st[p] = "done"
        /\ Len(BusOps(log[p])) = 7
        /\ BusOps(log[p])[1].data = <<2>>
        /\ BusOps(log[p])[7].data = <<2>>

\* Entry i of caller p's log is followed by a wait of ms milliseconds: the
\* wait is the next entry, or it is what the operation is at.
WaitFollows(p, i, ms) ==
    IF i < Len(log[p])
    THEN log[p][i + 1] = [k |-> "sleep", ms |-> ms]
    ELSE st[p] = "running" /\ Step(p) = [k |-> "sleep", ms |-> ms]

\* C22: settle waits are never skipped.  init waits 20 ms before its first
\* bus access; every write to OPMODE that went through is followed by a 10 ms
\* wait before the operation issues its next bus operation or returns; the
\* ClearGPR write is followed by a 10 ms wait, and in firmware_version by a
\* further 10 ms, before the next write to COMMAND.
C22_SettleWaits ==
    \A p \in Procs :
        /\ (op[p] = "open" /\ Len(log[p]) >= 2) =>
             /\ log[p][1].k = "open"
             /\ log[p][2] = [k |-> "sleep", ms |-> 20]
        /\ \A i \in 1..Len(log[p]) :
             (/\ log[p][i].k = "write" /\ log[p][i].reg = 16
              /\ log[p][i].ok) => WaitFollows(p, i, 10)
        /\ \A i \in 1..Len(log[p]) :
             (/\ log[p][i].k = "write" /\ log[p][i].reg = 18
              /\ log[p][i].data = <<204>> /\ log[p][i].ok) =>
                /\ WaitFollows(p, i, 10)
                /\ \A j \in (i + 1)..Len(log[p]) :
                     (log[p][j].k = "write" /\ log[p][j].reg = 18) =>
                        /\ op[p] = "firmware_version"
                        /\ j = i + 3
                        /\ log[p][i + 2] = [k |-> "sleep", ms |-> 10]

\* A firmware_version() that resolved: its ClearGPR write, two waits of
\* 10 ms, then the GetAppVersion write; the restoring write and its wait last.
C22_Witness ==
    \E p \in Procs :
        /\ op[p] = "firmware_version" /\ st[p] = "done"
        /\ \E i \in 1..Len(log[p]) :
             /\ log[p][i].k = "write" /\ log[p][i].data = <<204>>
             /\ log[p][i + 1] = [k |-> "sleep", ms |-> 10]
             /\ log[p][i + 2] = [k |-> "sleep", ms |-> 10]
             /\ log[p][i + 3].k = "write" /\ log[p][i + 3].data = <<14>>
        /\ log[p][Len(log[p])] = [k |-> "sleep", ms |-> 10]
        /\ log[p][Len(log[p]) - 1].reg = 16

\* C23: the compensation setters always write at least 2 bytes:
\* temperature_compensation(t) writes exactly 2 bytes to TEMP_IN, and
\* humidity_compensation(h) writes 2 or more bytes to RH_IN for every h in
\* 0..100, never 0 or 1 byte.
C23_SettersWriteTwoBytes ==
    \A p \in Procs :
        /\ (op[p] = "temperature_compensation" /\ log[p] # <<>>) =>
             /\ log[p][1].k = "write" /\ log[p][1].reg = 19
             /\ log[p][1].len = 2 /\ Len(log[p][1].data) = 2
        /\ (/\ op[p] = "humidity_compensation" /\ log[p] # <<>>
            /\ arg[p] >= 0 /\ arg[p] <= 10000) =>
             /\ log[p][1].k = "write" /\ log[p][1].reg = 21
             /\ log[p][1].len >= 2 /\ Len(log[p][1].data) = log[p][1].len

\* C24: when the value getMode() yields at the start of firmware_version() is
\* none of the four valid modes, firmware_version() still forces Idle and
\* performs the whole command exchange, then fails with the invalid-mode
\* error at the restore step without a further OPMODE write: it never
\* resolves, and with no bus failure it ends failed after exactly the six
\* transactions up to the bank read, the last mode written being Idle.
C24_InvalidSavedMode ==
    \A p \in Procs :
        (/\ op[p] = "firmware_version" /\ log[p] # <<>>
         /\ log[p][1].ok
         /\ getMode_return(log[p][1].data) \notin {0, 1, 2, 240}) =>
            /\ st[p] # "done"
            /\ Len(WireSeq(log[p])) <= 6
            /\ (Finished(p) /\ NoBusFailure(p)) =>
                 /\ st[p] = "failed"
                 /\ err[p] = "InvalidMode"
                 /\ WireSeq(log[p]) = VersionHead
                 /\ lastMode = <<1>>
                 /\ dev[ENS160_CMD_OPMODE] = <<1>>

C24_Witness ==
    \E p \in Procs :
        /\ op[p] = "firmware_version" /\ st[p] = "failed"
        /\ err[p] = "InvalidMode"
        /\ log[p][1].data = <<3>>
        /\ Len(BusOps(log[p])) = 6
        /\ lastMode = <<1>>

\* The operations that write a mode (reset, and so open, among them).
ModeChangingOps ==
    {"open", "open_compiled", "reset", "setMode", "firmware_version"}

\* C25: reset() issues exactly one bus operation, a 1-byte write of 0xF0 to
\* OPMODE, and none of the later initialization steps (no read, no write to
\* COMMAND, TEMP_IN or RH_IN, no other mode); when it has resolved the last
\* mode written is Reset, and that stays so at every step except a mode write
\* made by a mode-changing operation the caller has invoked.
C25_ResetOneWrite ==
    [][/\ \A p \in Procs :
            op'[p] = "reset" =>
                LET b == BusOps(log'[p])
                IN  /\ Len(b) <= 1
                    /\ Len(b) = 1 =>
                         b[1] = [k |-> "write", reg |-> 16, len |-> 1,
                                 data |-> <<240>>, ok |-> b[1].ok]
                    /\ st'[p] = "done" =>
                         /\ Len(b) = 1 /\ b[1].ok
                         /\ Len(log'[p]) = 2
                         /\ lastMode' = <<240>>
                         /\ dev'[ENS160_CMD_OPMODE] = <<240>>
       /\ (lastMode = <<240>> /\ lastMode' # <<240>>) =>
            \E q \in Procs :
                /\ op[q] \in ModeChangingOps \ {"reset"}
                /\ log'[q] # log[q]
                /\ log'[q][Len(log'[q])].k = "write"
                /\ log'[q][Len(log'[q])].reg = 16
                /\ log'[q][Len(log'[q])].ok]_vars

\* A reset() that resolved: its write and the settle wait, nothing else.
C25_Witness ==
    \E p \in Procs :
        /\ op[p] = "reset" /\ st[p] = "done"
        /\ Len(log[p]) = 2 /\ log[p][1].data = <<240>>
        /\ lastMode = <<240>>
        /\ dev[ENS160_CMD_COMMAND] = <<>>
        /\ dev[ENS160_CMD_TEMPIN] = <<>>

\* The same operation in the other copy of the driver (the TypeScript source
\* and the compiled module); the methods whose two copies read alike are
\* their own counterpart.
Counterpart(o) ==
    CASE o = "open" -> "open_compiled"
      [] o = "open_compiled" -> "open"
      [] o = "temperature_compensation" -> "temperature_compensation_compiled"
      [] o = "temperature_compensation_compiled" -> "temperature_compensation"
      [] o = "get_temperature_compensation" ->
             "get_temperature_compensation_compiled"
      [] o = "get_temperature_compensation_compiled" ->
             "get_temperature_compensation"
      [] o = "get_humidity_compensation" -> "get_humidity_compensation_compiled"
      [] o = "get_humidity_compensation_compiled" -> "get_humidity_compensation"
      [] OTHER -> o

\* C26: the compiled module is a behavioural duplicate of the TypeScript
\* source.  Every step an operation has run in one copy (bus call with its
\* register, length and bytes, wait, throw) is the step the other copy runs
\* at that point for the same argument, a resolved operation has run as many
\* steps as the other copy has, and the value a getter returns for the bytes
\* read is the value the other copy returns for them.
C26_CompiledDuplicate ==
    \A p \in Procs :
        op[p] # "none" =>
            LET other == Program(Counterpart(op[p]), arg[p], curr[p])
            IN  /\ \A i \in 1..(pc[p] - 1) :
                     i <= Len(other) /\ other[i] = Prog(p)[i]
                /\ st[p] = "done" => Len(other) = Len(Prog(p))
                /\ (st[p] = "done" /\ op[p] \in TemperatureGetters) =>
                     get_temperature_compensation_return(buf[p])
                       = get_temperature_compensation_compiled_return(buf[p])
                /\ (st[p] = "done" /\ op[p] \in HumidityGetters) =>
                     get_humidity_compensation_return(buf[p])
                       = get_humidity_compensation_compiled_return(buf[p])

====
